---- MODULE Spec2Model ----
(***************************************************************************)
(* Model of the cached-file HTTP handlers of src/src/app/views.py.         *)
(*                                                                         *)
(* The state is the CachedFile table (store), the id sequence of the       *)
(* table, and one record per in-flight request holding the handler's local *)
(* variables and its position.  Every await of a handler is one step, so   *)
(* that requests interleave exactly at the suspension points of the code.  *)
(* The collaborators that are imported by views.py but are not part of its *)
(* text (store queries, population, upstream fetcher, filename and         *)
(* metadata resolvers) answer nondeterministically, failures included.     *)
(***************************************************************************)
EXTENDS Integers, FiniteSets, Sequences, TLC

VARIABLES store, nextId, req

vars == <<store, nextId, req>>

\* ------------------------------------------------------------------ bounds
NumKeys == 2
NumLocs == 2
MaxCreates == 2

\* two request slots, numbered in order of arrival: the handlers are studied one
\* request at a time and as a pair of concurrent requests
Requests == {1, 2}
\* a key stands for one (object_id, object_type) pair
Keys == 1..NumKeys
\* a location pointer L stands for chat_id = L, message_id = L
Locs == 1..NumLocs
\* the ids the table may hand out after the seeded rows
MaxId == NumKeys + MaxCreates

\* ------------------------------------------------------------ data model
NoFile == [id |-> 0, key |-> 0, chat_id |-> 0, message_id |-> 0]

CachedFileDB(i, k, c, m) == [id |-> i, key |-> k, chat_id |-> c, message_id |-> m]

Matching(k) == {f \in store : f.key = k}

\* HTTP status codes used by the handlers
HTTP_200_OK == 200
HTTP_204_NO_CONTENT == 204
HTTP_404_NOT_FOUND == 404

IdleRequest ==
    [op |-> "idle", pc |-> "idle", key |-> 0, loc |-> 0,
     cached_file |-> NoFile, first_file |-> NoFile, data |-> "unset",
     status |-> 0, returned |-> NoFile,
     resolves |-> 0, populates |-> 0, fetches |-> 0, invalidates |-> 0,
     writes |-> 0, resolved |-> <<>>, populated |-> 0,
     filename |-> "unset", book |-> "unset",
     fetched |-> <<0, 0>>, gone |-> <<0, 0>>, streamFrom |-> 0,
     body |-> "none", responseCloses |-> 0, clientCloses |-> 0,
     deleteFailed |-> FALSE, raised |-> "none",
     creates |-> 0, removed |-> {}, spared |-> {}]

\* The table as it may stand when the process starts: at most one row per key.
\* Keys are interchangeable, so the seeded keys are taken to be the first n.
SeedStores ==
    {{CachedFileDB(k, k, 1, 1) : k \in 1..n} : n \in 0..NumKeys}

Init ==
    /\ store \in SeedStores
    /\ nextId = NumKeys + 1
    /\ req = [r \in Requests |-> IdleRequest]

\* ------------------------------------------------------------ plumbing
At(r, label) == req[r].pc = label

\* request r has not arrived yet and is the next to arrive
Arriving(r) == At(r, "idle") /\ \A q \in Requests : q < r => ~At(q, "idle")

Becomes(r, rec) == req' = [req EXCEPT ![r] = rec]

\* an exception that no handler catches ends the request
Raise(r, rec, what) ==
    /\ Becomes(r, [rec EXCEPT !.pc = "done", !.raised = what])
    /\ UNCHANGED <<store, nextId>>

\* raise HTTPException(status_code=code)
HTTPException(r, rec, code) ==
    Becomes(r, [rec EXCEPT !.pc = "done", !.status = code])

\* ------------------------------------------------------- collaborators
\* CachedFileDB.objects.get_or_none(object_id=..., object_type=...)
GetOrNone(k) == IF Matching(k) = {} THEN {NoFile} ELSE Matching(k)

\* cache_file_by_book_id: nothing, or a freshly persisted row for the key
CacheFileByBookId(k) ==
    {NoFile} \cup
    (IF nextId <= MaxId THEN {CachedFileDB(nextId, k, L, L) : L \in Locs} ELSE {})

Persist(f) ==
    IF f = NoFile
    THEN UNCHANGED <<store, nextId>>
    ELSE /\ store' = store \cup {f}
         /\ nextId' = nextId + 1

\* download_file_from_cache(chat_id, message_id): None or (response, client)
DownloadFileFromCache == {"None", "stream"}

\* get_filename / get_book: None or a value
Lookups == {"None", "value"}

\* the request record of a handler that has just been entered
Entered(r, name, k) == [req[r] EXCEPT !.op = name, !.key = k]

\* --------------------------------------------------- get_cached_file
\* mutant of GetCachedFileLookup: the test of line 32 dropped, so that the key
\* is populated whether or not a row exists
GetCachedFileLookup_AlwaysPopulates(r) ==
    /\ Arriving(r)
    /\ \E k \in Keys :
         /\ Becomes(r, [Entered(r, "get_cached_file", k) EXCEPT
                            !.resolves = 1, !.pc = "get_populate"])
         /\ UNCHANGED <<store, nextId>>

\* lines 28-32 and 40: the lookup by key; a row that exists is returned as is
GetCachedFileLookup(r) ==
    /\ Arriving(r)
    /\ \E k \in Keys :
         LET me == [Entered(r, "get_cached_file", k) EXCEPT !.resolves = 1] IN
         \/ \E f \in GetOrNone(k) :
              /\ IF f # NoFile
                 THEN Becomes(r, [me EXCEPT !.cached_file = f, !.returned = f,
                                            !.resolved = Append(@, "found"),
                                            !.status = HTTP_200_OK, !.pc = "done"])
                 ELSE Becomes(r, [me EXCEPT !.pc = "get_populate"])
              /\ UNCHANGED <<store, nextId>>
         \/ Raise(r, me, "store")

\* mutant of GetCachedFilePopulate: the test of line 37 inverted, so that a
\* populated row is answered with 404
GetCachedFilePopulate_Inverted(r) ==
    /\ At(r, "get_populate")
    /\ LET me == [req[r] EXCEPT !.populates = @ + 1] IN
       \E f \in CacheFileByBookId(me.key) :
            /\ Persist(f)
            /\ IF f # NoFile
               THEN HTTPException(r, [me EXCEPT !.resolved = Append(@, "created"),
                                                !.creates = @ + 1,
                                                !.populated = f.chat_id,
                                                !.writes = @ + 1],
                                  HTTP_404_NOT_FOUND)
               ELSE Becomes(r, [me EXCEPT !.resolved = Append(@, "NotFound"),
                                          !.status = HTTP_200_OK, !.pc = "done"])

\* lines 33-40: population of an absent key, 404 when it produces nothing
GetCachedFilePopulate(r) ==
    /\ At(r, "get_populate")
    /\ LET me == [req[r] EXCEPT !.populates = @ + 1] IN
       \/ \E f \in CacheFileByBookId(me.key) :
            /\ Persist(f)
            /\ IF f = NoFile
               THEN HTTPException(r, [me EXCEPT !.resolved = Append(@, "NotFound")],
                                  HTTP_404_NOT_FOUND)
               ELSE Becomes(r, [me EXCEPT !.cached_file = f, !.returned = f,
                                          !.resolved = Append(@, "created"),
                                          !.creates = @ + 1,
                                          !.populated = f.chat_id,
                                          !.writes = @ + 1,
                                          !.status = HTTP_200_OK, !.pc = "done"])
       \/ Raise(r, me, "population")

GetCachedFile(r) == GetCachedFileLookup(r) \/ GetCachedFilePopulate(r)

\* ---------------------------------------------- get_cached_file_or_cache
\* The helper of app.utils that download_cached_file awaits: the same lookup
\* and population as get_cached_file, NotFound being raised as a 404.
GetCachedFileOrCacheLookup(r, me, foundPc, populatePc) ==
    \/ \E f \in GetOrNone(me.key) :
         /\ IF f # NoFile
            THEN Becomes(r, [me EXCEPT !.cached_file = f,
                                       !.resolved = Append(@, "found"),
                                       !.pc = foundPc])
            ELSE Becomes(r, [me EXCEPT !.pc = populatePc])
         /\ UNCHANGED <<store, nextId>>
    \/ Raise(r, me, "store")

GetCachedFileOrCachePopulate(r, me, foundPc) ==
    \/ \E f \in CacheFileByBookId(me.key) :
         /\ Persist(f)
         /\ IF f = NoFile
            THEN HTTPException(r, [me EXCEPT !.resolved = Append(@, "NotFound")],
                               HTTP_404_NOT_FOUND)
            ELSE Becomes(r, [me EXCEPT !.cached_file = f,
                                       !.resolved = Append(@, "created"),
                                       !.creates = @ + 1,
                                       !.populated = f.chat_id,
                                       !.writes = @ + 1, !.pc = foundPc])
    \/ Raise(r, me, "population")

\* ------------------------------------------------ download_cached_file
\* line 45: the first resolution, up to the helper's lookup
DownloadResolve(r) ==
    /\ Arriving(r)
    /\ \E k \in Keys :
         GetCachedFileOrCacheLookup(
             r, [Entered(r, "download_cached_file", k) EXCEPT !.resolves = 1],
             "fetch", "populate")

\* mutant of DownloadPopulate: NotFound of the first resolution answered with
\* 204 instead of 404
DownloadPopulate_Empty(r) ==
    /\ At(r, "populate")
    /\ LET me == [req[r] EXCEPT !.populates = @ + 1] IN
       \E f \in CacheFileByBookId(me.key) :
            /\ Persist(f)
            /\ IF f = NoFile
               THEN HTTPException(r, [me EXCEPT !.resolved = Append(@, "NotFound")],
                                  HTTP_204_NO_CONTENT)
               ELSE Becomes(r, [me EXCEPT !.cached_file = f,
                                          !.resolved = Append(@, "created"),
                                          !.creates = @ + 1,
                                          !.populated = f.chat_id,
                                          !.writes = @ + 1, !.pc = "fetch"])

\* line 45: the first resolution, the helper's population of an absent key
DownloadPopulate(r) ==
    /\ At(r, "populate")
    /\ GetCachedFileOrCachePopulate(r, [req[r] EXCEPT !.populates = @ + 1], "fetch")

\* mutant of DownloadFetch: the test of line 51 dropped, so that a live first
\* fetch is invalidated and retried as well
DownloadFetch_RetriesLive(r) ==
    /\ At(r, "fetch")
    /\ LET cf == req[r].cached_file
           me == [req[r] EXCEPT !.fetches = @ + 1, !.first_file = cf,
                                !.fetched = <<cf.chat_id, cf.message_id>>]
       IN
       /\ \E d \in DownloadFileFromCache :
            IF d = "None"
            THEN Becomes(r, [me EXCEPT !.data = d, !.gone = me.fetched,
                                       !.pc = "invalidate"])
            ELSE Becomes(r, [me EXCEPT !.data = d, !.streamFrom = 1,
                                       !.pc = "invalidate"])
       /\ UNCHANGED <<store, nextId>>

\* lines 46-51: the first fetch, with the location of the resolved row
DownloadFetch(r) ==
    /\ At(r, "fetch")
    /\ LET cf == req[r].cached_file
           me == [req[r] EXCEPT !.fetches = @ + 1, !.first_file = cf,
                                !.fetched = <<cf.chat_id, cf.message_id>>]
       IN
       \/ /\ \E d \in DownloadFileFromCache :
               IF d = "None"
               THEN Becomes(r, [me EXCEPT !.data = d, !.gone = me.fetched,
                                          !.pc = "invalidate"])
               ELSE Becomes(r, [me EXCEPT !.data = d, !.streamFrom = 1,
                                          !.pc = "filename"])
          /\ UNCHANGED <<store, nextId>>
       \/ Raise(r, me, "fetch")

\* mutant of DownloadInvalidate: the delete of line 52 filtering on the key of
\* the row instead of its id
DownloadInvalidate_ByKey(r) ==
    /\ At(r, "invalidate")
    /\ LET me == [req[r] EXCEPT !.invalidates = @ + 1] IN
       \/ /\ store' = {f \in store : f.key # me.cached_file.key}
          /\ UNCHANGED nextId
          /\ Becomes(r, [me EXCEPT !.writes = @ + 1, !.pc = "re_resolve",
                                   !.removed = store \ store',
                                   !.spared = {f \in store' : f.key = me.key}])
       \/ Raise(r, [me EXCEPT !.deleteFailed = TRUE], "store")

\* mutant of DownloadInvalidate: the delete of line 52 left out
DownloadInvalidate_KeepsRow(r) ==
    /\ At(r, "invalidate")
    /\ Becomes(r, [req[r] EXCEPT !.invalidates = @ + 1, !.pc = "re_resolve"])
    /\ UNCHANGED <<store, nextId>>

\* line 52: the stale row is deleted by its id
DownloadInvalidate(r) ==
    /\ At(r, "invalidate")
    /\ LET me == [req[r] EXCEPT !.invalidates = @ + 1] IN
       \/ /\ store' = {f \in store : f.id # me.cached_file.id}
          /\ UNCHANGED nextId
          /\ Becomes(r, [me EXCEPT !.writes = @ + 1, !.pc = "re_resolve",
                                   !.removed = store \ store',
                                   !.spared = {f \in store' : f.key = me.key}])
       \/ Raise(r, [me EXCEPT !.deleteFailed = TRUE], "store")

\* line 54: the second resolution, up to the helper's lookup
DownloadReResolve(r) ==
    /\ At(r, "re_resolve")
    /\ GetCachedFileOrCacheLookup(r, [req[r] EXCEPT !.resolves = @ + 1],
                                  "re_fetch", "re_populate")

\* line 54: the second resolution, the helper's population
DownloadRePopulate(r) ==
    /\ At(r, "re_populate")
    /\ GetCachedFileOrCachePopulate(r, [req[r] EXCEPT !.populates = @ + 1],
                                    "re_fetch")

\* mutant of DownloadReFetch: a second gone report invalidates the re-resolved
\* row as line 52 does for the first
DownloadReFetch_InvalidatesAgain(r) ==
    /\ At(r, "re_fetch")
    /\ LET cf == req[r].cached_file
           me == [req[r] EXCEPT !.fetches = @ + 1,
                                !.fetched = <<cf.chat_id, cf.message_id>>]
       IN
       /\ \E d \in DownloadFileFromCache :
            IF d = "None"
            THEN /\ HTTPException(r, [me EXCEPT !.data = d], HTTP_204_NO_CONTENT)
                 /\ store' = {f \in store : f.id # cf.id}
            ELSE /\ Becomes(r, [me EXCEPT !.data = d, !.streamFrom = 2,
                                          !.pc = "filename"])
                 /\ store' = store
       /\ UNCHANGED nextId

\* lines 55-62: the second fetch; 204 when it reports gone as well
DownloadReFetch(r) ==
    /\ At(r, "re_fetch")
    /\ LET cf == req[r].cached_file
           me == [req[r] EXCEPT !.fetches = @ + 1,
                                !.fetched = <<cf.chat_id, cf.message_id>>]
       IN
       \/ /\ \E d \in DownloadFileFromCache :
               IF d = "None"
               THEN HTTPException(r, [me EXCEPT !.data = d], HTTP_204_NO_CONTENT)
               ELSE Becomes(r, [me EXCEPT !.data = d, !.streamFrom = 2,
                                          !.pc = "filename"])
          /\ UNCHANGED <<store, nextId>>
       \/ Raise(r, me, "fetch")

\* mutant of DownloadFilename: the raise of line 65 left out, so that the
\* metadata is looked up whether or not there is a filename
DownloadFilename_NoCheck(r) ==
    /\ At(r, "filename")
    /\ \E v \in Lookups :
         Becomes(r, [req[r] EXCEPT !.filename = v, !.pc = "book"])
    /\ UNCHANGED <<store, nextId>>

\* lines 64-65: the display filename; 204 when there is none
DownloadFilename(r) ==
    /\ At(r, "filename")
    /\ LET me == req[r] IN
       \/ /\ \E v \in Lookups :
               IF v = "None"
               THEN HTTPException(r, [me EXCEPT !.filename = v], HTTP_204_NO_CONTENT)
               ELSE Becomes(r, [me EXCEPT !.filename = v, !.pc = "book"])
          /\ UNCHANGED <<store, nextId>>
       \/ Raise(r, [me EXCEPT !.filename = "raised"], "filename")

\* lines 67-86: the metadata; 204 when there is none, else the streaming
\* response whose background task is close()
DownloadBook(r) ==
    /\ At(r, "book")
    /\ LET me == req[r] IN
       \/ /\ \E v \in Lookups :
               IF v = "None"
               THEN HTTPException(r, [me EXCEPT !.book = v], HTTP_204_NO_CONTENT)
               ELSE Becomes(r, [me EXCEPT !.book = v, !.status = HTTP_200_OK,
                                          !.body = "sending", !.pc = "streaming"])
          /\ UNCHANGED <<store, nextId>>
       \/ Raise(r, [me EXCEPT !.book = "raised"], "book")

\* line 79: response.aiter_bytes() has been sent to its end
ResponseBodySent(r) ==
    /\ At(r, "streaming")
    /\ Becomes(r, [req[r] EXCEPT !.body = "sent", !.pc = "close_response"])
    /\ UNCHANGED <<store, nextId>>

\* mutant of ClientDisconnect: the background task is not run when the client
\* drops the connection
ClientDisconnect_NoClose(r) ==
    /\ At(r, "streaming")
    /\ Becomes(r, [req[r] EXCEPT !.body = "aborted", !.pc = "done"])
    /\ UNCHANGED <<store, nextId>>

\* line 79: the client drops the connection while the body is being sent
ClientDisconnect(r) ==
    /\ At(r, "streaming")
    /\ Becomes(r, [req[r] EXCEPT !.body = "aborted", !.pc = "close_response"])
    /\ UNCHANGED <<store, nextId>>

\* line 73: close() releases the response
CloseResponse(r) ==
    /\ At(r, "close_response")
    /\ Becomes(r, [req[r] EXCEPT !.responseCloses = @ + 1, !.pc = "close_client"])
    /\ UNCHANGED <<store, nextId>>

\* line 74: close() releases the client
CloseClient(r) ==
    /\ At(r, "close_client")
    /\ Becomes(r, [req[r] EXCEPT !.clientCloses = @ + 1, !.pc = "done"])
    /\ UNCHANGED <<store, nextId>>

DownloadCachedFile(r) ==
    \/ DownloadResolve(r)
    \/ DownloadPopulate(r)
    \/ DownloadFetch(r)
    \/ DownloadInvalidate(r)
    \/ DownloadReResolve(r)
    \/ DownloadRePopulate(r)
    \/ DownloadReFetch(r)
    \/ DownloadFilename(r)
    \/ DownloadBook(r)
    \/ ResponseBodySent(r)
    \/ ClientDisconnect(r)
    \/ CloseResponse(r)
    \/ CloseClient(r)

\* --------------------------------------------------- delete_cached_file
\* lines 91-96: the lookup by key, 404 when there is no row
DeleteLookup(r) ==
    /\ Arriving(r)
    /\ \E k \in Keys :
         LET me == Entered(r, "delete_cached_file", k) IN
         \/ /\ \E f \in GetOrNone(k) :
                 IF f = NoFile
                 THEN HTTPException(r, me, HTTP_404_NOT_FOUND)
                 ELSE Becomes(r, [me EXCEPT !.cached_file = f, !.pc = "delete_row"])
            /\ UNCHANGED <<store, nextId>>
         \/ Raise(r, me, "store")

\* mutant of DeleteRow: the delete is issued on the whole table instead of the
\* row that was looked up
DeleteRow_WholeTable(r) ==
    /\ At(r, "delete_row")
    /\ LET me == req[r] IN
       /\ store' = {}
       /\ UNCHANGED nextId
       /\ Becomes(r, [me EXCEPT !.writes = @ + 1, !.returned = me.cached_file,
                                !.status = HTTP_200_OK, !.pc = "done"])

\* lines 98-100: the row is deleted by its id and returned
DeleteRow(r) ==
    /\ At(r, "delete_row")
    /\ LET me == req[r] IN
       \/ /\ store' = {f \in store : f.id # me.cached_file.id}
          /\ UNCHANGED nextId
          /\ Becomes(r, [me EXCEPT !.writes = @ + 1, !.returned = me.cached_file,
                                   !.status = HTTP_200_OK, !.pc = "done"])
       \/ Raise(r, me, "store")

DeleteCachedFile(r) == DeleteLookup(r) \/ DeleteRow(r)

\* ----------------------------------------- create_or_update_cached_file
\* mutant of UpsertLookup: the test of line 109 dropped, so that a row is
\* created whether or not the key has one
UpsertLookup_AlwaysCreates(r) ==
    /\ Arriving(r)
    /\ \E k \in Keys, L \in Locs :
         /\ Becomes(r, [Entered(r, "create_or_update_cached_file", k) EXCEPT
                            !.loc = L, !.pc = "upsert_create"])
         /\ UNCHANGED <<store, nextId>>

\* lines 105-109: the lookup by the key of the request body
UpsertLookup(r) ==
    /\ Arriving(r)
    /\ \E k \in Keys, L \in Locs :
         LET me == [Entered(r, "create_or_update_cached_file", k) EXCEPT !.loc = L] IN
         \/ /\ \E f \in GetOrNone(k) :
                 IF f = NoFile
                 THEN Becomes(r, [me EXCEPT !.pc = "upsert_create"])
                 ELSE Becomes(r, [me EXCEPT !.cached_file = f, !.pc = "upsert_update"])
            /\ UNCHANGED <<store, nextId>>
         \/ Raise(r, me, "store")

\* mutant of UpsertUpdate: the update() of line 112 left out, the overwritten
\* fields staying in the returned object only
UpsertUpdate_NoPersist(r) ==
    /\ At(r, "upsert_update")
    /\ LET me == req[r]
           new == [me.cached_file EXCEPT !.message_id = me.loc, !.chat_id = me.loc]
       IN
       /\ UNCHANGED <<store, nextId>>
       /\ Becomes(r, [me EXCEPT !.cached_file = new, !.returned = new,
                                !.writes = @ + 1,
                                !.status = HTTP_200_OK, !.pc = "done"])

\* mutant of UpsertUpdate: line 111 left out, so that only message_id is
\* overwritten
UpsertUpdate_PartialMerge(r) ==
    /\ At(r, "upsert_update")
    /\ LET me == req[r]
           new == [me.cached_file EXCEPT !.message_id = me.loc]
       IN
       /\ store' = {IF f.id = new.id THEN new ELSE f : f \in store}
       /\ UNCHANGED nextId
       /\ Becomes(r, [me EXCEPT !.cached_file = new, !.returned = new,
                                !.writes = @ + 1,
                                !.status = HTTP_200_OK, !.pc = "done"])

\* lines 110-112: both location fields are overwritten and the row is updated
\* by its id
UpsertUpdate(r) ==
    /\ At(r, "upsert_update")
    /\ LET me == req[r]
           new == [me.cached_file EXCEPT !.message_id = me.loc, !.chat_id = me.loc]
       IN
       \/ /\ store' = {IF f.id = new.id THEN new ELSE f : f \in store}
          /\ UNCHANGED nextId
          /\ Becomes(r, [me EXCEPT !.cached_file = new, !.returned = new,
                                   !.writes = @ + 1,
                                   !.status = HTTP_200_OK, !.pc = "done"])
       \/ Raise(r, me, "store")

\* lines 114-119: a new row is created for the key
UpsertCreate(r) ==
    /\ At(r, "upsert_create")
    /\ LET me == req[r]
           new == CachedFileDB(nextId, me.key, me.loc, me.loc)
       IN
       \/ /\ nextId <= MaxId
          /\ store' = store \cup {new}
          /\ nextId' = nextId + 1
          /\ Becomes(r, [me EXCEPT !.cached_file = new, !.returned = new,
                                   !.writes = @ + 1, !.creates = @ + 1,
                                   !.status = HTTP_200_OK, !.pc = "done"])
       \/ Raise(r, me, "store")

CreateOrUpdateCachedFile(r) == UpsertLookup(r) \/ UpsertUpdate(r) \/ UpsertCreate(r)

\* ------------------------------------------------------- specifications
Handler(r) ==
    \/ GetCachedFile(r)
    \/ DownloadCachedFile(r)
    \/ DeleteCachedFile(r)
    \/ CreateOrUpdateCachedFile(r)

\* requests run in parallel and interleave at every await
Next == \E r \in Requests : Handler(r)

Spec == Init /\ [][Next]_vars

\* one request at a time: a request starts only when no other is in flight
InFlight(r) == req[r].pc \notin {"idle", "done"}

SerialNext ==
    \E r \in Requests :
        /\ \A q \in Requests \ {r} : ~InFlight(q)
        /\ Handler(r)

SerialSpec == Init /\ [][SerialNext]_vars

\* --------------------------------------------------------- vocabulary
Download(r) == req[r].op = "download_cached_file"

Done(r) == At(r, "done")

\* no request has arrived after r
Latest(r) == \A q \in Requests : q > r => At(q, "idle")

\* the first fetch of the request reported gone
FirstFetchGone(r) == req[r].gone # <<0, 0>>

\* the request holds an upstream stream that is not fully released
StreamOpen(r) ==
    /\ req[r].streamFrom # 0
    /\ req[r].responseCloses = 0 \/ req[r].clientCloses = 0

Released(r) == req[r].responseCloses = 1 /\ req[r].clientCloses = 1

Empty(r) == req[r].status = HTTP_204_NO_CONTENT /\ req[r].raised = "none"

NotFound(r) == req[r].status = HTTP_404_NOT_FOUND /\ req[r].raised = "none"

Streaming(r) == req[r].status = HTTP_200_OK /\ req[r].raised = "none"

Ids == {f.id : f \in store}

\* -------------------------------------------------------------- claims

\* C1: a download request does at most 2 resolves, 2 fetches and 1 invalidate,
\* and one whose first fetch reported gone has, when it ends, invalidated
\* exactly once and re-resolved exactly once.
C1_OneRetryBound ==
    \A r \in Requests :
        Download(r) =>
            /\ req[r].resolves <= 2
            /\ req[r].fetches <= 2
            /\ req[r].invalidates <= 1
            /\ (Done(r) /\ FirstFetchGone(r)) =>
                   /\ req[r].invalidates = 1
                   /\ req[r].resolves = 2

\* C2: a download request that ends Empty after it obtained a live stream has
\* released that stream.
C2_PostOpenFailureReleases ==
    \A r \in Requests :
        (Download(r) /\ Done(r) /\ Empty(r)) => ~StreamOpen(r)

FoundFirst(r) == Len(req[r].resolved) >= 1 /\ req[r].resolved[1] = "found"

\* C4: a download request whose row exists and whose first fetch is live never
\* invalidates, resolves once, fetches once and writes nothing to the table,
\* whatever its outcome.
C4_LiveEntryUndisturbed ==
    \A r \in Requests :
        (Download(r) /\ FoundFirst(r) /\ req[r].streamFrom = 1) =>
            /\ req[r].invalidates = 0
            /\ req[r].resolves = 1
            /\ req[r].populates = 0
            /\ req[r].fetches = 1
            /\ req[r].writes = 0
            /\ req[r].first_file = req[r].cached_file

\* C4 witness: a live first fetch that ends in Streaming, and one that ends
\* Empty because the filename or the metadata is not found.
C4_Witness ==
    \E r, q \in Requests :
        /\ Download(r) /\ FoundFirst(r) /\ req[r].streamFrom = 1
        /\ Done(r) /\ Streaming(r)
        /\ Download(q) /\ FoundFirst(q) /\ req[q].streamFrom = 1
        /\ Done(q) /\ Empty(q)

\* the request found its row, saw it gone and resolved NotFound the second time
StaleAndUnresolvable(r) ==
    /\ Download(r)
    /\ FirstFetchGone(r)
    /\ req[r].resolved = <<"found", "NotFound">>

\* C5: a download request whose row exists, whose first fetch reports gone and
\* whose re-resolution yields NotFound ends Empty (204), without a second
\* fetch, and the table no longer holds the original row.
C5_StaleUnresolvableIsEmpty ==
    \A r \in Requests :
        StaleAndUnresolvable(r) =>
            /\ Done(r)
            /\ Empty(r)
            /\ req[r].fetches = 1
            /\ req[r].first_file.id \notin Ids

\* the request re-resolved after a gone first fetch, the re-fetch was live and
\* both the filename and the metadata were found
SelfHealed(r) ==
    /\ Download(r)
    /\ FirstFetchGone(r)
    /\ Len(req[r].resolved) = 2
    /\ req[r].streamFrom = 2
    /\ req[r].filename = "value"
    /\ req[r].book = "value"

\* C6: with one request at a time, a download request whose first fetch
\* reports gone, whose re-resolution produces an entry and whose re-fetch is
\* live ends (filename and metadata found) in Streaming with the stream of the
\* re-fetch on the new entry's location; the original row is absent from the
\* table and the re-resolved row is present.
C6_SelfHealingRetry ==
    \A r \in Requests :
        SelfHealed(r) =>
            /\ Streaming(r)
            /\ req[r].resolved[2] = "created"
            /\ req[r].fetches = 2
            /\ req[r].fetched = <<req[r].cached_file.chat_id, req[r].cached_file.message_id>>
            /\ req[r].cached_file.id # req[r].first_file.id
            /\ req[r].first_file.id \notin Ids
            /\ Latest(r) => req[r].cached_file \in Matching(req[r].key)

\* C6 witness: a self-healed request that has delivered its stream.
C6_Witness ==
    \E r \in Requests : SelfHealed(r) /\ Done(r) /\ Released(r) /\ Latest(r)

\* C7: a download request whose first resolution yields NotFound ends with
\* 404, has called neither the fetcher, the filename resolver, the metadata
\* resolver nor invalidate, and has written nothing to the table.
C7_NotFoundOnDownload ==
    \A r \in Requests :
        (Download(r) /\ req[r].resolved = <<"NotFound">>) =>
            /\ Done(r)
            /\ NotFound(r)
            /\ ~Empty(r)
            /\ req[r].fetches = 0
            /\ req[r].streamFrom = 0
            /\ req[r].filename = "unset"
            /\ req[r].book = "unset"
            /\ req[r].invalidates = 0
            /\ req[r].writes = 0

\* C7 witness: a download request that ended on a NotFound first resolution.
C7_Witness ==
    \E r \in Requests : Download(r) /\ req[r].resolved = <<"NotFound">> /\ Done(r)

\* C8: every download request that has ended ended in Streaming, Empty or
\* NotFound; no collaborator error reached the caller.
C8_ClosedOutcomeSet ==
    \A r \in Requests :
        (Download(r) /\ Done(r)) =>
            /\ req[r].raised = "none"
            /\ req[r].status \in {HTTP_200_OK, HTTP_204_NO_CONTENT, HTTP_404_NOT_FOUND}

\* C9: a download request whose delete failed in the invalidate step has not
\* been ended by that error: it went on to the re-resolution and ends in
\* Streaming or Empty.
C9_InvalidationNeverFails ==
    \A r \in Requests :
        (Download(r) /\ req[r].deleteFailed) =>
            /\ req[r].raised # "store"
            /\ req[r].resolves = 2
            /\ Done(r) => (Streaming(r) \/ Empty(r))

GetRequest(r) == req[r].op = "get_cached_file"

Upsert(r) == req[r].op = "create_or_update_cached_file"

\* r and q are two finished requests of the same handler on the same key, r
\* having arrived (and, one request at a time, ended) before q
InSuccession(r, q, name) ==
    /\ r < q
    /\ req[r].op = name /\ req[q].op = name
    /\ req[r].key = req[q].key
    /\ Done(r) /\ Done(q)

\* C11: with one request at a time, two resolve requests in succession on the
\* same key that both return an entry return the same location pointer, and
\* the second creates no record.
C11_ResolveIdempotent ==
    \A r, q \in Requests :
        (InSuccession(r, q, "get_cached_file") /\ Streaming(r) /\ req[q].raised = "none") =>
            /\ Streaming(q)
            /\ req[q].returned.chat_id = req[r].returned.chat_id
            /\ req[q].returned.message_id = req[r].returned.message_id
            /\ req[q].returned.id = req[r].returned.id
            /\ req[q].resolved = <<"found">>
            /\ req[q].populates = 0
            /\ req[q].creates = 0
            /\ req[q].writes = 0
            /\ Matching(req[q].key) = {req[q].returned}

\* C11 witness: the first resolve populated an absent key with a location other
\* than the seeded one, the second found that row.
C11_Witness ==
    \E r, q \in Requests :
        /\ InSuccession(r, q, "get_cached_file")
        /\ req[r].resolved = <<"created">> /\ req[r].returned.chat_id = 2
        /\ req[q].resolved = <<"found">> /\ Streaming(q)

Delete(r) == req[r].op = "delete_cached_file"

\* the step of request r that leaves label from, without an uncaught exception
Leaves(r, from) == At(r, from) /\ ~At(r, from)' /\ req'[r].raised = "none"

\* C13: with one request at a time, a delete request on a key with a row
\* removes exactly that row and returns it, the rows of the other keys staying
\* as they are; on a key without a row it answers 404 and leaves the table as
\* it is.
C13_ExplicitDelete ==
    [][\A r \in Requests :
         /\ (Leaves(r, "idle") /\ req'[r].op = "delete_cached_file") =>
                /\ store' = store
                /\ (Matching(req'[r].key) = {}) <=> (req'[r].status = HTTP_404_NOT_FOUND)
                /\ (Matching(req'[r].key) = {}) <=> (req'[r].pc = "done")
                /\ req'[r].pc = "delete_row" => req'[r].cached_file \in Matching(req'[r].key)
         /\ Leaves(r, "delete_row") =>
                /\ req[r].cached_file \in store
                /\ store' = store \ {req[r].cached_file}
                /\ {f \in store' : f.key = req[r].key} = {}
                /\ \A k \in Keys \ {req[r].key} : {f \in store' : f.key = k} = Matching(k)
                /\ req'[r].returned = req[r].cached_file
                /\ req'[r].status = HTTP_200_OK
                /\ req'[r].pc = "done"
      ]_vars

\* C13 witness: a delete request has removed and returned the row of its key,
\* while the row of another key is still in the table.
C13_Witness ==
    \E r \in Requests :
        /\ Delete(r) /\ Done(r) /\ Streaming(r)
        /\ req[r].returned.key = req[r].key
        /\ Matching(req[r].key) = {}
        /\ \E f \in store : f.key # req[r].key

\* the key has more than one row
Duplicated(k) == Cardinality(Matching(k)) >= 2

C16_StrictStepOrder ==
    \A r \in Requests :
        Download(r) =>
            /\ req[r].fetches >= 1 => Len(req[r].resolved) >= 1
            /\ At(r, "invalidate") =>
                   /\ FirstFetchGone(r)
                   /\ req[r].resolves = 1 /\ req[r].invalidates = 0
            /\ req[r].invalidates >= 1 =>
                   /\ FirstFetchGone(r)
                   /\ req[r].fetches >= 1
                   /\ req[r].streamFrom # 1
            /\ req[r].resolves = 2 =>
                   /\ req[r].invalidates = 1
                   /\ ~req[r].deleteFailed
            /\ req[r].fetches = 2 =>
                   /\ req[r].resolves = 2
                   /\ Len(req[r].resolved) = 2
            /\ req[r].filename # "unset" => req[r].streamFrom # 0
            /\ req[r].streamFrom = 0 =>
                   /\ req[r].filename = "unset"
                   /\ req[r].book = "unset"
            /\ req[r].book # "unset" => req[r].filename = "value"
            /\ req[r].filename = "None" => req[r].book = "unset"

\* C16 witness: one request went through every step (resolve, fetch gone,
\* invalidate, re-resolve, live re-fetch, filename, metadata), another ended on
\* a filename that was not found.
C16_Witness ==
    \E r, q \in Requests :
        /\ Download(r) /\ Done(r) /\ req[r].invalidates = 1 /\ req[r].streamFrom = 2
        /\ req[r].filename = "value" /\ req[r].book = "value"
        /\ Download(q) /\ Done(q) /\ req[q].filename = "None" /\ req[q].book = "unset"

\* the request saw both its first fetch and its re-fetch report gone
DoubleFailure(r) ==
    /\ Download(r)
    /\ FirstFetchGone(r)
    /\ req[r].fetches = 2
    /\ req[r].streamFrom = 0
    /\ req[r].raised = "none"

\* C17 as claimed: after a double failure the request has ended Empty, the
\* invalidated row is deleted and the key has no replacement row.
C17_NoReplacementAfterDoubleFailure ==
    \A r \in Requests :
        DoubleFailure(r) =>
            /\ Done(r) /\ Empty(r)
            /\ req[r].first_file.id \notin Ids
            /\ Latest(r) => Matching(req[r].key) = {}

\* C17 amended: with one request at a time, after a double failure the request
\* has ended Empty, the invalidated row is deleted, and the row that the
\* re-resolution produced is still the row of the key: it is not invalidated.
C17_ReplacementKeptAfterDoubleFailure ==
    \A r \in Requests :
        DoubleFailure(r) =>
            /\ Done(r) /\ Empty(r)
            /\ req[r].invalidates = 1
            /\ req[r].first_file.id \notin Ids
            /\ req[r].resolved[2] = "created"
            /\ req[r].cached_file.id # req[r].first_file.id
            /\ req[r].fetched = <<req[r].cached_file.chat_id, req[r].cached_file.message_id>>
            /\ Latest(r) => Matching(req[r].key) = {req[r].cached_file}

\* C17 witness: a request has ended on a double failure.
C17_Witness ==
    \E r \in Requests : DoubleFailure(r) /\ Done(r) /\ Latest(r)

\* upsert request r overwrote the existing row of its key and ended, and the
\* download request q on the same key arrived next and has called the fetcher
UpsertThenRetrieve(r, q) ==
    /\ r < q
    /\ Upsert(r) /\ Done(r) /\ Streaming(r) /\ req[r].creates = 0
    /\ Download(q) /\ req[q].key = req[r].key
    /\ req[q].fetches >= 1

C19_DeletesOnlyWhatWentStale ==
    \A r \in Requests :
        Download(r) =>
            \A f \in req[r].removed : <<f.chat_id, f.message_id>> = req[r].gone

\* r and q are two download requests whose first fetch reported the same row
\* gone, and the re-resolution of q created a replacement row
RepairedBy(r, q) ==
    /\ r # q
    /\ Download(r) /\ Download(q)
    /\ FirstFetchGone(r) /\ FirstFetchGone(q)
    /\ req[r].first_file.id = req[q].first_file.id
    /\ Len(req[q].resolved) = 2 /\ req[q].resolved[2] = "created"

\* C20: under any interleaving, the invalidate step of a download request
\* removes at most one row, and only the row with the id the request first
\* read; the replacement row that another request's re-resolution created for
\* the same stale row has another id and is never among the removed rows.
C20_InvalidateSparesRepair ==
    /\ \A r \in Requests :
           Download(r) =>
               /\ Cardinality(req[r].removed) <= 1
               /\ \A f \in req[r].removed : f.id = req[r].first_file.id
    /\ \A r, q \in Requests :
           RepairedBy(r, q) =>
               /\ req[q].cached_file.id # req[r].first_file.id
               /\ req[q].cached_file \notin req[r].removed

\* C20 witness: the slower request ran its delete while the faster request's
\* replacement row was in the table, and the replacement row survived it.
C20_Witness ==
    \E r, q \in Requests :
        /\ RepairedBy(r, q)
        /\ req[r].invalidates = 1 /\ ~req[r].deleteFailed
        /\ req[r].removed = {}
        /\ req[q].cached_file \in req[r].spared
        /\ req[q].cached_file \in store

====
